---- MODULE Spec2Model ----
(***************************************************************************)
(* Model of packages/jira/src/jira-service.ts: the JiraService facade over *)
(* the generated Jira client, its constructor writing the client's shared  *)
(* OpenAPI configuration, its five operations run through                  *)
(* handleApiOperation, and the static validateConfig.                      *)
(***************************************************************************)
EXTENDS Integers, Sequences, FiniteSets, TLC

VARIABLES
    OpenAPI,      \* the generated client's configuration object (one per process)
    facades,      \* the JiraService instances constructed so far, with their arguments
    calls,        \* the facade calls that have not yet been returned to their caller
    env,          \* process.env as validateConfig last read it
    missingVars   \* what validateConfig last returned

vars == <<OpenAPI, facades, calls, env, missingVars>>

(***************************************************************************)
(* Bounds.                                                                 *)
(***************************************************************************)
MaxFacades == 2
MaxCalls == 2

CallIds == 1..MaxCalls

(***************************************************************************)
(* JavaScript values. Every value is a record with one tag field, so that  *)
(* values of different types are different and comparable.                 *)
(***************************************************************************)
Undefined == [undefined |-> TRUE]
Null == [null |-> TRUE]
Str(s) == [str |-> s]
Num(n) == [num |-> n]
Bool(b) == [bool |-> b]
Arr(s) == [arr |-> s]
\* An object is its set of own properties, each a <<key, value>> pair.
Obj(props) == [obj |-> props]

Keys(o) == {p[1] : p \in o.obj}
Get(o, k) == (CHOOSE p \in o.obj : p[1] = k)[2]

\* a ?? b
Nullish(v) == v = Undefined \/ v = Null
\* !v, for the values that occur (undefined, null, strings, numbers, objects)
Falsy(v) == v = Undefined \/ v = Null \/ v = Str("") \/ v = Num(0)

\* { ...a, ...b }
Spread(a, b) == Obj({p \in a.obj : p[1] \notin Keys(b)} \cup b.obj)

(***************************************************************************)
(* Constructor (lines 6-10).                                               *)
(***************************************************************************)
\* The constructor with || where the code has ??.
constructorOr(host, token, fullBaseUrl) ==
    [BASE    |-> IF Falsy(fullBaseUrl) THEN "https://" \o host \o "/rest"
                 ELSE fullBaseUrl.str,
     TOKEN   |-> token,
     VERSION |-> "2"]

\* The constructor deriving the base URL without the /rest suffix.
constructorNoRest(host, token, fullBaseUrl) ==
    [BASE    |-> IF Nullish(fullBaseUrl) THEN "https://" \o host
                 ELSE fullBaseUrl.str,
     TOKEN   |-> token,
     VERSION |-> "2"]

constructor(host, token, fullBaseUrl) ==
    [BASE    |-> IF Nullish(fullBaseUrl) THEN "https://" \o host \o "/rest"
                 ELSE fullBaseUrl.str,
     TOKEN   |-> token,
     VERSION |-> "2"]

(***************************************************************************)
(* The five operations (lines 12-57): each gives the operation handed to   *)
(* handleApiOperation, as the client requests its body issues, and the     *)
(* error message handed with it.                                           *)
(***************************************************************************)
DefaultMaxResults == 10

Default(v, d) == IF v = Undefined THEN d ELSE v

\* searchIssues with maxResults || 10 in place of the default parameter.
searchIssuesOr(jql, startAt, expand, maxResults) ==
    [operation |->
        <<[method |-> "SearchService.searchUsingSearchRequest",
           args |-> <<Obj({<<"jql", Str(jql)>>,
                           <<"maxResults", IF Falsy(maxResults)
                                           THEN Num(DefaultMaxResults)
                                           ELSE maxResults>>,
                           <<"expand", expand>>,
                           <<"startAt", startAt>>})>>]>>,
     errorMessage |-> "Error searching issues"]

searchIssues(jql, startAt, expand, maxResults) ==
    [operation |->
        <<[method |-> "SearchService.searchUsingSearchRequest",
           args |-> <<Obj({<<"jql", Str(jql)>>,
                           <<"maxResults", Default(maxResults, Num(DefaultMaxResults))>>,
                           <<"expand", expand>>,
                           <<"startAt", startAt>>})>>]>>,
     errorMessage |-> "Error searching issues"]

getIssue(issueKey, expand) ==
    [operation |-> <<[method |-> "IssueService.getIssue",
                      args |-> <<Str(issueKey), expand>>]>>,
     errorMessage |-> "Error getting issue"]

\* getIssueComments reporting under getIssue's message.
getIssueCommentsAsGetIssue(issueKey, expand) ==
    [operation |-> <<[method |-> "IssueService.getComments",
                      args |-> <<Str(issueKey), expand>>]>>,
     errorMessage |-> "Error getting issue"]

getIssueComments(issueKey, expand) ==
    [operation |-> <<[method |-> "IssueService.getComments",
                      args |-> <<Str(issueKey), expand>>]>>,
     errorMessage |-> "Error getting issue comments"]

postIssueComment(issueKey, comment) ==
    [operation |-> <<[method |-> "IssueService.addComment",
                      args |-> <<Str(issueKey), Undefined,
                                 Obj({<<"body", Str(comment)>>})>>]>>,
     errorMessage |-> "Error posting issue comment"]

standardFields(params) ==
    Obj({<<"project", Obj({<<"key", Str(params.projectId)>>})>>,
         <<"summary", Str(params.summary)>>,
         <<"description", Str(params.description)>>,
         <<"issuetype", Obj({<<"id", Str(params.issueTypeId)>>})>>})

\* createIssue spreading the standard fields over the custom ones.
createIssueStandardWins(params) ==
    LET fields == IF ~Falsy(params.customFields)
                  THEN Spread(params.customFields, standardFields(params))
                  ELSE standardFields(params)
    IN  [operation |-> <<[method |-> "IssueService.createIssue",
                          args |-> <<Bool(TRUE), Obj({<<"fields", fields>>})>>]>>,
         errorMessage |-> "Error creating issue"]

createIssue(params) ==
    LET fields == IF ~Falsy(params.customFields)
                  THEN Spread(standardFields(params), params.customFields)
                  ELSE standardFields(params)
    IN  [operation |-> <<[method |-> "IssueService.createIssue",
                          args |-> <<Bool(TRUE), Obj({<<"fields", fields>>})>>]>>,
         errorMessage |-> "Error creating issue"]

(***************************************************************************)
(* validateConfig (lines 59-67).                                           *)
(***************************************************************************)
requiredEnvVars == <<"JIRA_API_TOKEN">>

\* validateConfig testing for undefined only.
validateConfigUndefinedOnly(e) ==
    LET filtered == SelectSeq(requiredEnvVars, LAMBDA varName : e[varName] = Undefined)
    IN  IF e["JIRA_HOST"] = Undefined /\ e["JIRA_API_BASE_PATH"] = Undefined
        THEN Append(filtered, "JIRA_HOST or JIRA_API_BASE_PATH")
        ELSE filtered

validateConfig(e) ==
    LET filtered == SelectSeq(requiredEnvVars, LAMBDA varName : Falsy(e[varName]))
    IN  IF Falsy(e["JIRA_HOST"]) /\ Falsy(e["JIRA_API_BASE_PATH"])
        THEN Append(filtered, "JIRA_HOST or JIRA_API_BASE_PATH")
        ELSE filtered

(***************************************************************************)
(* handleApiOperation of @atlassian-dc-mcp/common: the outcome of the      *)
(* wrapped operation becomes the outcome of the wrapper.                   *)
(***************************************************************************)
Pending == [kind |-> "pending"]
Resolved(v) == [kind |-> "resolved", value |-> v]
Rejected(e) == [kind |-> "rejected", error |-> e]

\* The wrapper keeping the failure's text in place of the failure.
handleApiOperationStringCause(outcome, errorMessage) ==
    IF outcome.kind = "rejected"
    THEN Rejected([message |-> errorMessage \o ": " \o outcome.error.message,
                   cause   |-> Str(outcome.error.message)])
    ELSE outcome

handleApiOperation(outcome, errorMessage) ==
    IF outcome.kind = "rejected"
    THEN Rejected([message |-> errorMessage \o ": " \o outcome.error.message,
                   cause   |-> outcome.error])
    ELSE outcome

(***************************************************************************)
(* State.                                                                  *)
(***************************************************************************)
Idle == [kind |-> "idle"]
NotCalled == <<"validateConfig not called">>
EnvVars == {"JIRA_API_TOKEN", "JIRA_HOST", "JIRA_API_BASE_PATH"}

\* Before the first construction the client's configuration holds the generated
\* defaults, which no call can read: every operation is a method of an instance.
Init ==
    /\ OpenAPI = [BASE |-> "", TOKEN |-> "", VERSION |-> ""]
    /\ facades = <<>>
    /\ calls = [c \in CallIds |-> Idle]
    /\ env = [v \in EnvVars |-> Undefined]
    /\ missingVars = NotCalled

NoCallInFlight == \A c \in CallIds : calls[c] = Idle
FreeSlot == CHOOSE c \in CallIds : calls[c] = Idle /\ \A d \in 1..(c - 1) : calls[d] # Idle

\* new JiraService(host, token, fullBaseUrl)
NewJiraService(host, token, fullBaseUrl) ==
    /\ Len(facades) < MaxFacades
    /\ OpenAPI' = constructor(host, token, fullBaseUrl)
    /\ facades' = Append(facades, [host |-> host, token |-> token,
                                   fullBaseUrl |-> fullBaseUrl])
    /\ UNCHANGED <<calls, env, missingVars>>

\* The generated client takes the request with the configuration in effect.
Send(request) ==
    [method |-> request.method, args |-> request.args,
     BASE |-> OpenAPI.BASE, TOKEN |-> OpenAPI.TOKEN, VERSION |-> OpenAPI.VERSION]

\* A call of a facade method runs, without suspending, to the client request.
Invoke(f, name, params, m) ==
    /\ f \in DOMAIN facades
    /\ \E c \in CallIds : calls[c] = Idle
    /\ calls' = [calls EXCEPT ![FreeSlot] =
                    [facade       |-> f,
                     method       |-> name,
                     params       |-> params,
                     errorMessage |-> m.errorMessage,
                     requests     |-> [i \in DOMAIN m.operation |-> Send(m.operation[i])],
                     client       |-> Pending,
                     result       |-> Pending]]
    /\ UNCHANGED <<OpenAPI, facades, env, missingVars>>

CallSearchIssues(f, jql, startAt, expand, maxResults) ==
    Invoke(f, "searchIssues", <<Str(jql), startAt, expand, maxResults>>,
           searchIssues(jql, startAt, expand, maxResults))

CallGetIssue(f, issueKey, expand) ==
    Invoke(f, "getIssue", <<Str(issueKey), expand>>, getIssue(issueKey, expand))

CallGetIssueComments(f, issueKey, expand) ==
    Invoke(f, "getIssueComments", <<Str(issueKey), expand>>,
           getIssueComments(issueKey, expand))

CallPostIssueComment(f, issueKey, comment) ==
    Invoke(f, "postIssueComment", <<Str(issueKey), Str(comment)>>,
           postIssueComment(issueKey, comment))

CallCreateIssue(f, params) ==
    Invoke(f, "createIssue", <<params>>, createIssue(params))

\* The client's promise settles.
ClientResolves(c, v) ==
    /\ calls[c] # Idle
    /\ calls[c].client = Pending
    /\ calls' = [calls EXCEPT ![c].client = Resolved(v)]
    /\ UNCHANGED <<OpenAPI, facades, env, missingVars>>

ClientRejects(c, e) ==
    /\ calls[c] # Idle
    /\ calls[c].client = Pending
    /\ calls' = [calls EXCEPT ![c].client = Rejected(e)]
    /\ UNCHANGED <<OpenAPI, facades, env, missingVars>>

\* The facade method without its return: its promise resolves with undefined
\* once the operation has run.
SettleNoReturn(c) ==
    /\ calls[c] # Idle
    /\ calls[c].client # Pending
    /\ calls[c].result = Pending
    /\ calls' = [calls EXCEPT ![c].result = Resolved(Undefined)]
    /\ UNCHANGED <<OpenAPI, facades, env, missingVars>>

\* The facade method trying the operation a second time after a failure.
SettleRetry(c) ==
    /\ calls[c] # Idle
    /\ calls[c].client # Pending
    /\ calls[c].result = Pending
    /\ calls' =
         IF calls[c].client.kind = "rejected" /\ Len(calls[c].requests) < 2
         THEN [calls EXCEPT ![c].requests = Append(@, @[1]), ![c].client = Pending]
         ELSE [calls EXCEPT ![c].result =
                  handleApiOperation(calls[c].client, calls[c].errorMessage)]
    /\ UNCHANGED <<OpenAPI, facades, env, missingVars>>

\* return handleApiOperation(...): the facade method's promise settles as the
\* wrapper's does.
Settle(c) ==
    /\ calls[c] # Idle
    /\ calls[c].client # Pending
    /\ calls[c].result = Pending
    /\ calls' = [calls EXCEPT ![c].result =
                    handleApiOperation(calls[c].client, calls[c].errorMessage)]
    /\ UNCHANGED <<OpenAPI, facades, env, missingVars>>

\* The caller takes the settled result.
Return(c) ==
    /\ calls[c] # Idle
    /\ calls[c].result # Pending
    /\ calls' = [calls EXCEPT ![c] = Idle]
    /\ UNCHANGED <<OpenAPI, facades, env, missingVars>>

\* JiraService.validateConfig() with process.env = e
ValidateConfig(e) ==
    /\ env' = e
    /\ missingVars' = validateConfig(e)
    /\ UNCHANGED <<OpenAPI, facades, calls>>

(***************************************************************************)
(* Inputs.                                                                 *)
(***************************************************************************)
ProxyUrl == "http://proxy.example/jira/rest"
Hosts == {"jira.a.example", "jira.b.example"}
Tokens == {"tokA", "tokB"}
FullBaseUrls == {Undefined, Null, Str(""), Str(ProxyUrl)}

\* Facades of one process: two hosts, two tokens, with and without the override.
FacadeArgs ==
    {<<"jira.a.example", "tokA", Undefined>>,
     <<"jira.b.example", "tokA", Undefined>>,
     <<"jira.a.example", "tokB", Undefined>>,
     <<"jira.a.example", "tokA", Str(ProxyUrl)>>}

Jqls == {"project = X"}
StartAts == {Undefined, Num(5)}
Expands == {Undefined, Arr(<<Str("changelog")>>)}
MaxResultsArgs == {Undefined, Num(0), Num(50)}
IssueKeys == {"PROJ-123"}
ExpandStrs == {Undefined, Str("changelog")}
Comments == {"h2. Note"}
CustomFields ==
    {Undefined,
     Null,
     Obj({}),
     Obj({<<"summary", Str("override")>>}),
     Obj({<<"customfield_10001", Str("Custom Value")>>,
          <<"labels", Arr(<<Str("urgent")>>)>>}),
     Obj({<<"project", Obj({<<"key", Str("OTHER")>>})>>,
          <<"issuetype", Obj({<<"id", Str("9")>>})>>,
          <<"priority", Undefined>>})}
CreateParams ==
    {[projectId |-> "PROJ", summary |-> "original", description |-> "text",
      issueTypeId |-> "3", customFields |-> cf] : cf \in CustomFields}

ClientValues == {Obj({<<"id", Str("10001")>>}), Undefined}
Failures == {[id |-> 1, message |-> "Not Found"],
             [id |-> 2, message |-> "Network Error"]}

EnvValues == {Undefined, Str(""), Str("set")}
Envs == [EnvVars -> EnvValues]

FacadeIds == 1..MaxFacades

(***************************************************************************)
(* Spec: any number of facades up to MaxFacades, constructed at any time,  *)
(* and a caller that awaits each call before it makes the next.            *)
(***************************************************************************)
Next ==
    \/ \E a \in FacadeArgs : NewJiraService(a[1], a[2], a[3])
    \/ \E f \in FacadeIds, jql \in Jqls, startAt \in StartAts,
          expand \in Expands, maxResults \in MaxResultsArgs :
            NoCallInFlight /\ CallSearchIssues(f, jql, startAt, expand, maxResults)
    \/ \E f \in FacadeIds, issueKey \in IssueKeys, expand \in ExpandStrs :
            NoCallInFlight /\ CallGetIssue(f, issueKey, expand)
    \/ \E f \in FacadeIds, issueKey \in IssueKeys, expand \in ExpandStrs :
            NoCallInFlight /\ CallGetIssueComments(f, issueKey, expand)
    \/ \E f \in FacadeIds, issueKey \in IssueKeys, comment \in Comments :
            NoCallInFlight /\ CallPostIssueComment(f, issueKey, comment)
    \/ \E f \in FacadeIds, params \in CreateParams :
            NoCallInFlight /\ CallCreateIssue(f, params)
    \/ \E c \in CallIds, v \in ClientValues : ClientResolves(c, v)
    \/ \E c \in CallIds, e \in Failures : ClientRejects(c, e)
    \/ \E c \in CallIds : Settle(c)
    \/ \E c \in CallIds : Return(c)

Spec == Init /\ [][Next]_vars

(***************************************************************************)
(* FairSpec: one facade and up to MaxCalls calls in flight at once; a      *)
(* continuation that is ready to run is run (the event loop).              *)
(***************************************************************************)
FairValue == Obj({<<"id", Str("10001")>>})
FairFailure == [id |-> 1, message |-> "Not Found"]
FairParams ==
    [projectId |-> "PROJ", summary |-> "original", description |-> "text",
     issueTypeId |-> "3", customFields |-> Undefined]

FairNext ==
    \/ \E host \in Hosts :
            facades = <<>> /\ NewJiraService(host, "tokA", Undefined)
    \/ \E f \in FacadeIds : CallSearchIssues(f, "project = X", Undefined, Undefined, Undefined)
    \/ \E f \in FacadeIds : CallGetIssue(f, "PROJ-123", Undefined)
    \/ \E f \in FacadeIds : CallGetIssueComments(f, "PROJ-123", Undefined)
    \/ \E f \in FacadeIds : CallPostIssueComment(f, "PROJ-123", "h2. Note")
    \/ \E f \in FacadeIds : CallCreateIssue(f, FairParams)
    \/ \E c \in CallIds : ClientResolves(c, FairValue)
    \/ \E c \in CallIds : ClientRejects(c, FairFailure)
    \/ \E c \in CallIds : Settle(c)
    \/ \E c \in CallIds : Return(c)

FairSpec == Init /\ [][FairNext]_vars /\ \A c \in CallIds : WF_vars(Settle(c))

(***************************************************************************)
(* ConfigSpec: start-up: validateConfig on any environment, and the        *)
(* constructor on any arguments.                                           *)
(***************************************************************************)
ConfigNext ==
    \/ \E e \in Envs : ValidateConfig(e)
    \/ \E host \in Hosts, token \in Tokens, fullBaseUrl \in FullBaseUrls :
            NewJiraService(host, token, fullBaseUrl)

ConfigSpec == Init /\ [][ConfigNext]_vars

(***************************************************************************)
(* Properties.                                                             *)
(***************************************************************************)
InFlight(c) == calls[c] # Idle
Failed(c) == InFlight(c) /\ calls[c].client.kind = "rejected"
Succeeded(c) == InFlight(c) /\ calls[c].client.kind = "resolved"
Settled(c) == InFlight(c) /\ calls[c].result # Pending
Range(s) == {s[i] : i \in DOMAIN s}

\* C1: when the operation run through handleApiOperation fails with E, the
\* wrapper rejects with an error whose message is "<context>: <message of E>"
\* and whose cause is E itself; the failure never becomes a result.
C1_FailureIsNormalized ==
    \A c \in CallIds :
        Failed(c) /\ Settled(c) =>
            /\ calls[c].result.kind = "rejected"
            /\ calls[c].result.error.message =
                   calls[c].errorMessage \o ": " \o calls[c].client.error.message
            /\ calls[c].result.error.cause = calls[c].client.error

C1_Witness ==
    \E c \in CallIds :
        /\ Failed(c) /\ Settled(c)
        /\ calls[c].method = "getIssue"
        /\ calls[c].result.error.message = "Error getting issue: Not Found"
        /\ calls[c].result.error.cause.id = 1

\* C2: when the operation resolves with V, the facade method resolves with
\* exactly V and no error is raised.
C2_SuccessIsUnchanged ==
    \A c \in CallIds :
        Succeeded(c) /\ Settled(c) =>
            /\ calls[c].result.kind = "resolved"
            /\ calls[c].result.value = calls[c].client.value

C2_Witness ==
    \E c \in CallIds :
        /\ Succeeded(c) /\ Settled(c)
        /\ calls[c].client.value = Obj({<<"id", Str("10001")>>})
        /\ calls[c].result.value = Obj({<<"id", Str("10001")>>})

\* The base URL a facade constructed with these arguments is said to use.
StatedBaseUrl(F) ==
    IF F.fullBaseUrl = Undefined \/ F.fullBaseUrl = Null
    THEN "https://" \o F.host \o "/rest"
    ELSE F.fullBaseUrl.str

\* C3: the base URL and token in effect when an operation of facade F reaches
\* the client are the ones F was constructed with, whatever other facades
\* were constructed in between.
C3_ConfigurationOwnedByFacade ==
    \A c \in CallIds :
        InFlight(c) =>
            \A i \in DOMAIN calls[c].requests :
                /\ calls[c].requests[i].BASE = StatedBaseUrl(facades[calls[c].facade])
                /\ calls[c].requests[i].TOKEN = facades[calls[c].facade].token

\* C4: after construction the client's base URL is the fullBaseUrl override
\* when one is given and "https://{host}/rest" otherwise, the token is the
\* supplied token and the API version is "2".
C4_ConstructorSetsConfiguration ==
    facades # <<>> =>
        LET F == facades[Len(facades)]
        IN  /\ F.fullBaseUrl \in {Undefined, Null} =>
                   OpenAPI.BASE = "https://" \o F.host \o "/rest"
            /\ F.fullBaseUrl \notin {Undefined, Null} =>
                   OpenAPI.BASE = F.fullBaseUrl.str
            /\ OpenAPI.TOKEN = F.token
            /\ OpenAPI.VERSION = "2"

C4_Witness ==
    /\ Len(facades) = 2
    /\ facades[1].fullBaseUrl = Undefined
    /\ facades[2] = [host |-> "jira.b.example", token |-> "tokB",
                     fullBaseUrl |-> Str(ProxyUrl)]
    /\ OpenAPI = [BASE |-> ProxyUrl, TOKEN |-> "tokB", VERSION |-> "2"]

StandardKeys == {"project", "summary", "description", "issuetype"}

\* C5: createIssue forwards the fields object that has, for every key of
\* customFields, the custom value, for every other standard key the standard
\* value, and no other key.
C5_CustomFieldsMergedOverStandard ==
    \A c \in CallIds :
        InFlight(c) /\ calls[c].method = "createIssue" =>
            LET p == calls[c].params[1]
                cf == p.customFields
                given == cf # Undefined /\ cf # Null
                custom == IF given THEN Keys(cf) ELSE {}
                body == calls[c].requests[1].args[2]
                fields == Get(body, "fields")
                standard(k) ==
                    CASE k = "project" -> Obj({<<"key", Str(p.projectId)>>})
                      [] k = "summary" -> Str(p.summary)
                      [] k = "description" -> Str(p.description)
                      [] k = "issuetype" -> Obj({<<"id", Str(p.issueTypeId)>>})
            IN  /\ Len(calls[c].requests) = 1
                /\ calls[c].requests[1].method = "IssueService.createIssue"
                /\ Keys(body) = {"fields"}
                /\ Keys(fields) = StandardKeys \cup custom
                /\ Cardinality(fields.obj) = Cardinality(Keys(fields))
                /\ \A k \in Keys(fields) :
                       Get(fields, k) = IF k \in custom THEN Get(cf, k) ELSE standard(k)

C5_Witness ==
    \E c \in CallIds :
        /\ InFlight(c) /\ calls[c].method = "createIssue"
        /\ calls[c].params[1].summary = "original"
        /\ calls[c].params[1].customFields = Obj({<<"summary", Str("override")>>})
        /\ Get(Get(calls[c].requests[1].args[2], "fields"), "summary") = Str("override")

\* C6: searchIssues forwards one search request {jql, maxResults, expand,
\* startAt} whose maxResults is 10 when the caller gives none and the
\* caller's value otherwise, the rest unchanged.
C6_SearchRequestForwarded ==
    \A c \in CallIds :
        InFlight(c) /\ calls[c].method = "searchIssues" =>
            LET p == calls[c].params
            IN  /\ Len(calls[c].requests) = 1
                /\ calls[c].requests[1].method = "SearchService.searchUsingSearchRequest"
                /\ calls[c].requests[1].args =
                       <<Obj({<<"jql", p[1]>>,
                              <<"maxResults", IF p[4] = Undefined THEN Num(10) ELSE p[4]>>,
                              <<"expand", p[3]>>,
                              <<"startAt", p[2]>>})>>

C6_Witness ==
    \E c \in CallIds :
        /\ InFlight(c) /\ calls[c].method = "searchIssues"
        /\ calls[c].params = <<Str("project = X"), Undefined, Undefined, Undefined>>
        /\ Get(calls[c].requests[1].args[1], "maxResults") = Num(10)

TokenName == "JIRA_API_TOKEN"
HostOrBasePath == "JIRA_HOST or JIRA_API_BASE_PATH"

\* C7 as stated: validateConfig names the token variable exactly when it is
\* absent, and the combined descriptor exactly when the host and the base
\* path variables are both absent, the token name first.
C7_MissingIffAbsent ==
    missingVars # NotCalled =>
        missingVars =
            (IF env["JIRA_API_TOKEN"] = Undefined THEN <<TokenName>> ELSE <<>>)
            \o (IF env["JIRA_HOST"] = Undefined /\ env["JIRA_API_BASE_PATH"] = Undefined
                THEN <<HostOrBasePath>> ELSE <<>>)

Unset(v) == v = Undefined \/ v = Str("")

\* C7 as amended: validateConfig names the token variable exactly when it is
\* absent or empty, and the combined descriptor exactly when the host and the
\* base path variables are each absent or empty, the token name first.
C7_MissingIffAbsentOrEmpty ==
    missingVars # NotCalled =>
        missingVars =
            (IF Unset(env["JIRA_API_TOKEN"]) THEN <<TokenName>> ELSE <<>>)
            \o (IF Unset(env["JIRA_HOST"]) /\ Unset(env["JIRA_API_BASE_PATH"])
                THEN <<HostOrBasePath>> ELSE <<>>)

C7_Witness ==
    /\ env["JIRA_API_TOKEN"] = Str("")
    /\ env["JIRA_HOST"] = Undefined
    /\ env["JIRA_API_BASE_PATH"] = Str("set")
    /\ missingVars = <<TokenName>>

StatedMessage(method) ==
    CASE method = "searchIssues" -> "Error searching issues"
      [] method = "getIssue" -> "Error getting issue"
      [] method = "getIssueComments" -> "Error getting issue comments"
      [] method = "postIssueComment" -> "Error posting issue comment"
      [] method = "createIssue" -> "Error creating issue"
Methods == {"searchIssues", "getIssue", "getIssueComments", "postIssueComment",
            "createIssue"}

\* C8: a failure of the client call of an operation reaches the caller as the
\* normalized error under that operation's own message, which is no other
\* operation's message.
C8_FailureUnderOwnContext ==
    \A c \in CallIds :
        InFlight(c) =>
            /\ calls[c].errorMessage = StatedMessage(calls[c].method)
            /\ \A other \in Methods \ {calls[c].method} :
                   calls[c].errorMessage # StatedMessage(other)
            /\ Failed(c) /\ Settled(c) =>
                   /\ calls[c].result.kind = "rejected"
                   /\ calls[c].result.error.message =
                          StatedMessage(calls[c].method) \o ": "
                              \o calls[c].client.error.message

C8_Witness ==
    \E c \in CallIds :
        /\ Failed(c) /\ Settled(c)
        /\ calls[c].method = "getIssueComments"
        /\ calls[c].result.error.message = "Error getting issue comments: Network Error"

\* C9: a facade call invokes the client operation once, never again after a
\* failure, each of several calls in flight has its own invocation, and once
\* that invocation has settled the call settles with its result or with the
\* normalized error of its failure.
C9_OneInvocationThenSettles ==
    /\ [](\A c \in CallIds :
            InFlight(c) =>
                /\ Len(calls[c].requests) = 1
                /\ Settled(c) => calls[c].client # Pending
                /\ Succeeded(c) /\ Settled(c) =>
                       calls[c].result = Resolved(calls[c].client.value)
                /\ Failed(c) /\ Settled(c) =>
                       /\ calls[c].result.kind = "rejected"
                       /\ calls[c].result.error.cause = calls[c].client.error)
    /\ \A c \in CallIds :
         (InFlight(c) /\ calls[c].client # Pending) ~> Settled(c)

C9_Witness ==
    \E c \in CallIds, d \in CallIds :
        /\ c # d
        /\ Failed(c) /\ Settled(c) /\ Len(calls[c].requests) = 1
        /\ Succeeded(d) /\ Settled(d) /\ Len(calls[d].requests) = 1

\* C10: validateConfig reports JIRA_API_TOKEN set to "" as missing and
\* reports the combined descriptor when JIRA_HOST and JIRA_API_BASE_PATH are
\* each unset or empty; the constructor takes an empty fullBaseUrl as the base
\* URL and derives it from the host only for undefined or null.
C10_EmptyStringHandling ==
    /\ missingVars # NotCalled =>
           /\ env["JIRA_API_TOKEN"] = Str("") => TokenName \in Range(missingVars)
           /\ /\ env["JIRA_HOST"] \in {Undefined, Str("")}
              /\ env["JIRA_API_BASE_PATH"] \in {Undefined, Str("")}
              => HostOrBasePath \in Range(missingVars)
    /\ facades # <<>> =>
           LET F == facades[Len(facades)]
           IN  /\ F.fullBaseUrl = Str("") => OpenAPI.BASE = ""
               /\ F.fullBaseUrl \in {Undefined, Null} =>
                      OpenAPI.BASE = "https://" \o F.host \o "/rest"

C10_Witness ==
    /\ env["JIRA_API_TOKEN"] = Str("")
    /\ env["JIRA_HOST"] = Str("")
    /\ env["JIRA_API_BASE_PATH"] = Undefined
    /\ missingVars = <<TokenName, HostOrBasePath>>
    /\ facades # <<>>
    /\ facades[Len(facades)].fullBaseUrl = Str("")
    /\ OpenAPI.BASE = ""

====
